---- MODULE Spec2Model ----
(***************************************************************************)
(* Model of data_generator.py: the inventory ledger (InventoryManager),    *)
(* the page-transition model, session synthesis, the two transaction       *)
(* paths, the streaming transaction writer, the chunked session writer     *)
(* and the generation loop with its epilogue.                              *)
(*                                                                         *)
(* Money is in integer cents.  Session ids are the ordinal of the session  *)
(* (uuid4 values are taken to be pairwise distinct); 0 stands for None.    *)
(***************************************************************************)
EXTENDS Integers, Sequences, FiniteSets, TLC

(***************************************************************************)
(* Configuration (data_generator.py:12-25), scaled down.                   *)
(***************************************************************************)
NUM_SESSIONS == 3
NUM_TRANSACTIONS == 2
MAX_ITERATIONS == (NUM_SESSIONS + NUM_TRANSACTIONS) * 3
CHUNK_SIZE == 2

\* Largest number of interior time-slot points of a session (the code draws
\* 3..15); a session has one page view more than interior points.
MaxInterior == 5
\* Number of update_stock calls the concurrent caller makes during a run.
MaxCalls == 1
\* Number of calls each caller makes when the ledger is exercised alone, and
\* how far below zero the quantities passed to it go.
LedgerCalls == 2
NegQty == 1

\* Longest session, in seconds (the code draws 30..3600), and the largest
\* interior time-slot point drawn (the code draws 1..session_duration - 1).
MaxDuration == 30
MaxPoint == 3
\* Largest number of interior points when a session is built statement by
\* statement.
MaxPagePoints == 3
\* Largest position and longest history determine_page_type is called with
\* on its own.
MaxPosition == 2
MaxHistory == 2
\* Two runs of the script side by side: the latest day on the wall clock a
\* run can start, the largest value uuid4 can return, and the number of
\* records a run emits.
MaxClock == 1
MaxUuid == 1
MaxRecords == 2
\* How far below zero the chunk sizes of an invalid configuration go.
BadChunk == 1
\* Number of write_tx calls each concurrent producer of transactions makes.
WriterCalls == 2
\* Longest page-view sequence followed page type by page type.
MaxWalk == 6
\* Product generation, dates in days from product_creation_start: the last
\* day an initial date can fall on (the code: TIMESPAN_DAYS // 3) and the day
\* "now" is (the code: TIMESPAN_DAYS * 2).
MaxInitialDay == 1
NowDay == 2

MinInterior == 3
MinDuration == 30
SEED == 42
TIMESPAN_DAYS == 90
MaxAttempts == 10
MaxAddQty == 3
MaxBasketQty == 3
MaxBasketSize == 3
MaxPriceChanges == 2

(***************************************************************************)
(* The catalog: three products, one of them inactive.                      *)
(***************************************************************************)
Products == {"p0", "p1", "p2"}

is_active == [p \in Products |-> p # "p2"]

base_price == [p \in Products |-> CASE p = "p0" -> 501
                                    [] p = "p1" -> 510
                                    [] OTHER    -> 1999]

PageTypes == {"home", "search", "category_listing", "product_detail",
              "cart", "checkout", "confirmation"}

Categories == {"cat_000", "cat_001"}

\* The stock the products start with (the code draws 10..1000 each).
InitialStock == [p \in Products |-> IF p = "p2" THEN 2 ELSE 1]

category_id == [p \in Products |-> IF p = "p2" THEN "cat_001" ELSE "cat_000"]

NoProduct == "none"
NoCategory == "none"
None == 0
DiscountRates == {5, 10, 15, 20}

\* Concurrent callers of the ledger besides the generation loop.
Workers == {"w1", "w2"}
NoOwner == "free"

VARIABLES
    stock,                \* inventory.products[p]["current_stock"]
    lock,                 \* owner of inventory.lock
    products_json,        \* stock column of products.json as last written
    tx_file,              \* tokens written to transactions.json
    tx_closed,            \* tx_file.close() has run
    first_tx,
    session_counter,
    transaction_counter,
    iteration,
    chunk_sessions,       \* buffered session documents
    chunk_index,
    session_files,        \* session_files[n+1] is sessions_<n>.json
    pc,                   \* position of the generation script
    session_id,
    nviews,               \* len(time_slots) - 1
    page_views,
    cart_contents,        \* cart lines in insertion order
    converted,
    session_doc,          \* the session document of this iteration
    transaction_items,
    valid,
    line,                 \* position of the for loop over the cart / basket
    basket,               \* products_in_txn
    tx_doc,               \* the document last passed to write_tx
    wpc, wprod, wqty, wret, wcalls,   \* concurrent callers of update_stock
    stock0,               \* history: stock when the ledger was built
    taken,                \* history: quantities decremented per product
    lin_stock,            \* history: the ledger had the calls run one at a
                          \* time, in the order they took the lock
    lin_ret,              \* history: what each caller's call returns then
    sold,                 \* history: quantities in written transactions
    abandoned,            \* history: sessions whose transaction was given up
    call,                 \* history: the last direct call of update_stock
    chunk_size,           \* configuration: CHUNK_SIZE of this run
    session_duration,
    time_slots,
    view_i,               \* i of the page-view loop
    view_type,            \* page_type of the page view being built
    view_product,         \* product, category of the page view being built
    view_category,
    view_attempts,        \* attempts of get_page_content
    runs,                 \* the outputs of two runs of the script, side by side
    prod_pc,              \* position in the body of the product loop
    drawn_price,          \* base_price as drawn
    initial_date,
    sampled_date,         \* history: initial_date as first sampled
    price_changes,        \* passes of the price-change loop still to run
    price_history,
    product_doc           \* the product appended to products

vars == <<stock, lock, products_json, tx_file, tx_closed, first_tx,
          session_counter, transaction_counter, iteration, chunk_sessions,
          chunk_index, session_files, pc, session_id, nviews, page_views,
          cart_contents, converted, session_doc, transaction_items, valid,
          line, basket, tx_doc,
          wpc, wprod, wqty, wret, wcalls, stock0, taken, lin_stock, lin_ret,
          sold, abandoned, call, chunk_size, session_duration, time_slots,
          view_i, view_type, view_product, view_category, view_attempts,
          runs, prod_pc, drawn_price, initial_date, sampled_date,
          price_changes, price_history, product_doc>>

ledgerVars == <<stock, lock, stock0, taken, lin_stock, call>>
writerVars == <<tx_file, tx_closed, first_tx, sold>>
chunkVars == <<chunk_sessions, chunk_index, session_files, chunk_size>>
counterVars == <<session_counter, transaction_counter, iteration>>
sessionVars == <<session_id, nviews, page_views, cart_contents, converted,
                 session_doc>>
txVars == <<transaction_items, valid, line, basket, tx_doc, abandoned>>
workerVars == <<wpc, wprod, wqty, wret, wcalls, lin_ret>>
pageVars == <<session_duration, time_slots, view_i, view_type, view_product,
              view_category, view_attempts>>
catalogVars == <<prod_pc, drawn_price, initial_date, sampled_date,
                 price_changes, price_history, product_doc>>

Min(a, b) == IF a <= b THEN a ELSE b

(***************************************************************************)
(* InventoryManager.update_stock, the body under the lock.                 *)
(***************************************************************************)
SufficientStock_Unchecked(s, product_id, quantity) == TRUE

SufficientStock(s, product_id, quantity) == s[product_id] >= quantity

\* The value update_stock returns on ledger s.
update_stock_ok(s, product_id, quantity) ==
    /\ product_id \in DOMAIN s
    /\ SufficientStock(s, product_id, quantity)

update_stock_Everything(s, product_id, quantity) ==
    IF update_stock_ok(s, product_id, quantity)
    THEN [p \in DOMAIN s |-> s[p] - quantity]
    ELSE s

\* The ledger update_stock leaves behind.
update_stock(s, product_id, quantity) ==
    IF update_stock_ok(s, product_id, quantity)
    THEN [s EXCEPT ![product_id] = @ - quantity]
    ELSE s

Take(t, product_id, quantity, ok) ==
    IF ok THEN [t EXCEPT ![product_id] = @ + quantity] ELSE t

(***************************************************************************)
(* determine_page_type: the page types it can return.                      *)
(***************************************************************************)
Successors_AnyPage(prev_page) == PageTypes

Successors(prev_page) ==
    CASE prev_page = "home" -> {"category_listing", "search", "product_detail"}
      [] prev_page = "category_listing" ->
            {"product_detail", "category_listing", "search", "home"}
      [] prev_page = "search" ->
            {"product_detail", "search", "category_listing", "home"}
      [] prev_page = "product_detail" ->
            {"product_detail", "cart", "category_listing", "search", "home"}
      [] prev_page = "cart" ->
            {"checkout", "product_detail", "category_listing", "home"}
      [] prev_page = "checkout" -> {"confirmation", "cart", "home"}
      [] prev_page = "confirmation" ->
            {"home", "product_detail", "category_listing"}
      [] OTHER -> {"home"}

determine_page_type_AnyFirst(position, previous_pages) ==
    IF previous_pages = <<>> THEN PageTypes
    ELSE Successors(previous_pages[Len(previous_pages)].page_type)

determine_page_type(position, previous_pages) ==
    IF position = 0 THEN {"home", "search", "category_listing"}
    ELSE IF previous_pages = <<>> THEN {"home"}
    ELSE Successors(previous_pages[Len(previous_pages)].page_type)

(***************************************************************************)
(* get_page_content: the (product, category) pairs it can return.          *)
(***************************************************************************)
Available_IgnoresStock(s, p) == is_active[p]

Available(s, p) == is_active[p] /\ s[p] > 0

RECURSIVE DrawProduct(_, _)
DrawProduct(attempts, s) ==
    IF attempts < MaxAttempts
    THEN {p \in Products : Available(s, p)}
         \cup (IF \E p \in Products : ~Available(s, p)
               THEN DrawProduct(attempts + 1, s)
               ELSE {})
    ELSE Products

get_page_content(page_type, s) ==
    IF page_type = "product_detail"
    THEN {[product |-> p, category |-> category_id[p]] :
              p \in DrawProduct(0, s)}
    ELSE IF page_type = "category_listing"
    THEN {[product |-> NoProduct, category |-> c] : c \in Categories}
    ELSE {[product |-> NoProduct, category |-> NoCategory]}

(***************************************************************************)
(* Cart accumulation (data_generator.py:280-287).  A cart is the sequence  *)
(* of its lines in insertion order.                                        *)
(***************************************************************************)
InCart(cart, p) == \E k \in 1..Len(cart) : cart[k].product_id = p

CartPos(cart, p) == CHOOSE k \in 1..Len(cart) : cart[k].product_id = p

WithLine(cart, p) ==
    IF InCart(cart, p) THEN cart
    ELSE Append(cart, [product_id |-> p, quantity |-> 0,
                       price |-> base_price[p]])

max_possible_NoStock(cart, p, s) == MaxAddQty

max_possible_Stale(cart, p, s) == Min(MaxAddQty, s[p])

max_possible(cart, p, s) ==
    Min(MaxAddQty, s[p] - cart[CartPos(cart, p)].quantity)

\* The carts an add-to-cart of product p can leave.
AddToCart(cart, p, s) ==
    LET c == WithLine(cart, p)
        m == max_possible(c, p, s)
    IN  IF m > 0
        THEN {[c EXCEPT ![CartPos(c, p)].quantity = @ + add_qty] :
                  add_qty \in 1..m}
        ELSE {c}

(***************************************************************************)
(* One pass of the page-view loop (data_generator.py:271-295) on a session *)
(* in progress: [views, cart].                                             *)
(***************************************************************************)
PageView(page_type, content) ==
    [page_type |-> page_type, product_id |-> content.product,
     category_id |-> content.category]

PageStep(sess, i, s) ==
    UNION {
      UNION {
        LET pv == PageView(pt, content)
            carts == IF pt = "product_detail" /\ content.product # NoProduct
                     THEN {sess.cart}
                          \cup AddToCart(sess.cart, content.product, s)
                     ELSE {sess.cart}
        IN  {[views |-> Append(sess.views, pv), cart |-> c] : c \in carts}
        : content \in get_page_content(pt, s)}
      : pt \in determine_page_type(i, sess.views)}

\* any(p["page_type"] in ["checkout", "confirmation"] for p in page_views)
ReachedCheckout(views) ==
    \E k \in 1..Len(views) : views[k].page_type \in {"checkout", "confirmation"}

\* The values 'converted' can take (data_generator.py:297-299).
Conversions(cart, reached) ==
    IF cart # <<>> /\ reached THEN BOOLEAN ELSE {FALSE}

PositiveLines_All(cart) == cart

\* {k: v for k, v in cart_contents.items() if v["quantity"] > 0}
PositiveLines(cart) == SelectSeq(cart, LAMBDA l : l.quantity > 0)

conversion_status(conv, cart) ==
    IF conv THEN "converted"
    ELSE IF cart # <<>> THEN "abandoned"
    ELSE "browsed"

(***************************************************************************)
(* The page-view loop run to its end: what the sessions of lo..hi page     *)
(* views can leave, given the ledger s.  Of the views only the page type   *)
(* of the last one is read again (by determine_page_type) besides the      *)
(* checkout test, so the walk keeps that and whether checkout or           *)
(* confirmation was reached.                                               *)
(***************************************************************************)
LastView(views) ==
    IF views = <<>> THEN <<>>
    ELSE <<[page_type |-> views[Len(views)].page_type]>>

Summaries(x, i, s) ==
    {[views |-> LastView(y.views), cart |-> y.cart,
      reached |-> x.reached \/ ReachedCheckout(y.views)] :
        y \in PageStep([views |-> x.views, cart |-> x.cart], i, s)}

RECURSIVE Walk(_, _, _, _, _)
Walk(set, i, lo, hi, s) ==
    (IF i >= lo THEN set ELSE {})
    \cup (IF i = hi THEN {}
          ELSE Walk(UNION {Summaries(x, i, s) : x \in set}, i + 1, lo, hi, s))

SessionOutcomes(lo, hi, s) ==
    Walk({[views |-> <<>>, cart |-> <<>>, reached |-> FALSE]}, 0, lo, hi, s)

(***************************************************************************)
(* Money (cents).  round(x, 2) of a product with a rate: to the nearest    *)
(* cent; on a tie the binary value of the float decides, either way.       *)
(***************************************************************************)
RoundCents(num, den) ==
    LET q == num \div den
        r == num % den
    IN  IF 2 * r < den THEN {q}
        ELSE IF 2 * r > den THEN {q + 1}
        ELSE {q, q + 1}

RECURSIVE SumSubtotals(_)
SumSubtotals(items) ==
    IF items = <<>> THEN 0
    ELSE items[1].subtotal + SumSubtotals(Tail(items))

Item_OneUnit(product_id, quantity, unit_price) ==
    [product_id |-> product_id, quantity |-> 1,
     unit_price |-> unit_price, subtotal |-> unit_price]

Item(product_id, quantity, unit_price) ==
    [product_id |-> product_id, quantity |-> quantity,
     unit_price |-> unit_price, subtotal |-> quantity * unit_price]

\* discount: 0, or round(subtotal * discount_rate, 2)
Discounts(subtotal) ==
    {0} \cup UNION {RoundCents(subtotal * r, 100) : r \in DiscountRates}

Total_NoDiscount(subtotal, discount) == subtotal

Total(subtotal, discount) == subtotal - discount

BasketStatuses == {"completed", "processing", "shipped", "delivered"}

\* The documents the transaction blocks can build from the items.
TxDocs(tid, sid, items, statuses) ==
    LET subtotal == SumSubtotals(items)
    IN  {[transaction_id |-> tid, session_id |-> sid, items |-> items,
          subtotal |-> subtotal, discount |-> d,
          total |-> Total(subtotal, d), status |-> st] :
              d \in Discounts(subtotal), st \in statuses}

NoTx ==
    [transaction_id |-> 0, session_id |-> None, items |-> <<>>,
     subtotal |-> 0, discount |-> 0, total |-> 0, status |-> "none"]

NoSession ==
    [session_id |-> None, conversion_status |-> "none", cart_contents |-> <<>>]

(***************************************************************************)
(* The transaction stream (data_generator.py:225-234, 418-419).            *)
(***************************************************************************)
Token(t, doc) ==
    [tok |-> t, transaction_id |-> doc.transaction_id,
     session_id |-> doc.session_id]

OpenBracket == Token("[", NoTx)
Separator == Token(",", NoTx)
CloseBracket == Token("]", NoTx)

NeedsSeparator_Always(first) == TRUE

NeedsSeparator(first) == ~first

write_tx_Twice(file, first, doc) ==
    file \o <<Token("elem", doc), Separator, Token("elem", doc)>>

write_tx(file, first, doc) ==
    IF NeedsSeparator(first)
    THEN file \o <<Separator, Token("elem", doc)>>
    ELSE Append(file, Token("elem", doc))

(***************************************************************************)
(* Session chunks (data_generator.py:241-251, 323-327).                    *)
(***************************************************************************)
\* A session document in the buffer and in a chunk file, by its id.
SessionEntry(doc) == doc.session_id

flush_sessions_KeepsBuffer(buf, idx, files) ==
    IF buf = <<>> THEN <<buf, idx, files>>
    ELSE <<buf, idx + 1,
           [n \in DOMAIN files \cup {idx} |-> IF n = idx THEN buf ELSE files[n]]>>

\* flush_sessions: <<chunk_sessions, chunk_index, session_files>> afterwards.
flush_sessions(buf, idx, files) ==
    IF buf = <<>> THEN <<buf, idx, files>>
    ELSE <<<<>>, idx + 1,
           [n \in DOMAIN files \cup {idx} |-> IF n = idx THEN buf ELSE files[n]]>>

ChunkFull_OffByOne(buf, size) == Len(buf) > size

ChunkFull_Never(buf, size) == FALSE

ChunkFull(buf, size) == Len(buf) >= size

(***************************************************************************)
(* The generation loop.                                                    *)
(***************************************************************************)
BelowTarget_Open(counter, target) == TRUE

\* transaction_counter < NUM_TRANSACTIONS, the gate of both transaction blocks.
BelowTarget(counter, target) == counter < target

LoopCond_TransactionsOnly ==
    /\ transaction_counter < NUM_TRANSACTIONS
    /\ iteration < MAX_ITERATIONS

LoopCond ==
    /\ session_counter < NUM_SESSIONS \/ transaction_counter < NUM_TRANSACTIONS
    /\ iteration < MAX_ITERATIONS

CanAcquire_NoLock(l, who) == TRUE

CanAcquire(l, who) == l = NoOwner \/ l = who

NoCall ==
    [n |-> 0, product_id |-> NoProduct, quantity |-> 0, before |-> 0,
     after |-> 0, ret |-> FALSE]

\* What a caller of update_stock got back.
Ret(b) == IF b THEN "True" ELSE "False"

NextIteration_Stuck(i) == i

NextIteration(i) == i + 1

RECURSIVE ItemsQty(_, _)
ItemsQty(items, p) ==
    IF items = <<>> THEN 0
    ELSE (IF items[1].product_id = p THEN items[1].quantity ELSE 0)
         + ItemsQty(Tail(items), p)

ShouldCommit_IgnoresValid(v, items) == items # <<>>

\* if valid and transaction_items:
ShouldCommit(v, items) == v /\ items # <<>>

OnLineFailure_Rollback(s, items) ==
    [p \in DOMAIN s |-> s[p] + ItemsQty(items, p)]

\* else: valid = False; break -- the ledger is left as it is.
OnLineFailure(s, items) == s

Snapshot_Stale(s) == InitialStock

\* json.dump(list(inventory.products.values())): the stock column.
Snapshot(s) == s

Sell(so, items) == [p \in Products |-> so[p] + ItemsQty(items, p)]

\* The two runs of the script, before either has started.
Runs == {"run_a", "run_b"}

NotStarted ==
    [phase |-> "off", seed |-> 0, now |-> 0, draws |-> 0, catalog |-> <<>>,
     out |-> <<>>]

NoRuns == [r \in Runs |-> NotStarted]

\* No product appended yet.
NoProductDoc ==
    [base_price |-> 0, price_history |-> <<>>, creation_date |-> 0]

\* The state before the generation loop, on the ledger s, the chunk size
\* being one of sizes.
InitSized(s, sizes) ==
    /\ stock = s
    /\ stock0 = stock
    /\ taken = [p \in Products |-> 0]
    /\ lock = NoOwner
    /\ products_json = Snapshot(stock)
    /\ tx_file = <<OpenBracket>>
    /\ tx_closed = FALSE
    /\ first_tx = TRUE
    /\ session_counter = 0
    /\ transaction_counter = 0
    /\ iteration = 0
    /\ chunk_sessions = <<>>
    /\ chunk_index = 0
    /\ session_files = <<>>
    /\ pc = "loop"
    /\ session_id = None
    /\ nviews = 0
    /\ page_views = <<>>
    /\ cart_contents = <<>>
    /\ converted = FALSE
    /\ session_doc = NoSession
    /\ transaction_items = <<>>
    /\ valid = TRUE
    /\ line = 0
    /\ basket = <<>>
    /\ tx_doc = NoTx
    /\ wpc = [w \in Workers |-> "idle"]
    /\ wprod = [w \in Workers |-> NoProduct]
    /\ wqty = [w \in Workers |-> 0]
    /\ wret = [w \in Workers |-> "none"]
    /\ wcalls = [w \in Workers |-> 0]
    /\ lin_stock = stock
    /\ lin_ret = [w \in Workers |-> "none"]
    /\ sold = [p \in Products |-> 0]
    /\ abandoned = {}
    /\ call = NoCall
    /\ chunk_size \in sizes
    /\ session_duration = 0
    /\ time_slots = <<>>
    /\ view_i = 0
    /\ view_type = "none"
    /\ view_product = NoProduct
    /\ view_category = NoCategory
    /\ view_attempts = 0
    /\ runs = NoRuns
    /\ prod_pc = "draw"
    /\ drawn_price = 0
    /\ initial_date = 0
    /\ sampled_date = 0
    /\ price_changes = 0
    /\ price_history = <<>>
    /\ product_doc = NoProductDoc

InitWith(s) == InitSized(s, {CHUNK_SIZE, NUM_SESSIONS})

Init == InitWith(InitialStock)

\* The locals of the session block are dead once the block is left, those
\* of an iteration when the next one starts.
ClearSession ==
    /\ session_id' = None
    /\ nviews' = 0
    /\ page_views' = <<>>
    /\ cart_contents' = <<>>
    /\ converted' = FALSE
    /\ session_doc' = NoSession

ClearLocals ==
    /\ ClearSession
    /\ transaction_items' = <<>>
    /\ valid' = TRUE
    /\ line' = 0
    /\ basket' = <<>>
    /\ tx_doc' = NoTx
    /\ UNCHANGED abandoned

\* while ...: iteration += 1 (data_generator.py:255-259)
LoopEnter ==
    /\ pc = "loop"
    /\ LoopCond
    /\ iteration' = NextIteration(iteration)
    /\ pc' = IF session_counter < NUM_SESSIONS THEN "session" ELSE "basket"
    /\ ClearLocals
    /\ UNCHANGED <<ledgerVars, products_json, writerVars, chunkVars,
                   session_counter, transaction_counter, workerVars>>
    /\ UNCHANGED <<pageVars, runs, catalogVars>>

LoopExit ==
    /\ pc = "loop"
    /\ ~LoopCond
    /\ pc' = "flush"
    /\ ClearLocals
    /\ UNCHANGED <<ledgerVars, products_json, writerVars, chunkVars,
                   counterVars, workerVars>>
    /\ UNCHANGED <<pageVars, runs, catalogVars>>

\* Session generation (data_generator.py:259-330).
GenerateSession ==
    /\ pc = "session"
    /\ \E out \in SessionOutcomes(MinInterior + 1, MaxInterior + 1, stock) :
       \E conv \in Conversions(out.cart, out.reached) :
         LET sid == session_counter + 1
             doc == [session_id |-> sid,
                     conversion_status |-> conversion_status(conv, out.cart),
                     cart_contents |-> PositiveLines(out.cart)]
             buf == Append(chunk_sessions, SessionEntry(doc))
             fl == IF ChunkFull(buf, chunk_size)
                   THEN flush_sessions(buf, chunk_index, session_files)
                   ELSE <<buf, chunk_index, session_files>>
         IN  /\ session_id' = sid
             /\ cart_contents' = out.cart
             /\ converted' = conv
             /\ session_doc' = doc
             /\ chunk_sessions' = fl[1]
             /\ chunk_index' = fl[2]
             /\ session_files' = fl[3]
             /\ chunk_size' = chunk_size
             /\ session_counter' = session_counter + 1
             /\ pc' = IF conv /\ BelowTarget(transaction_counter,
                                              NUM_TRANSACTIONS)
                      THEN "cart" ELSE "basket"
             /\ line' = IF conv /\ BelowTarget(transaction_counter,
                                                NUM_TRANSACTIONS)
                        THEN 1 ELSE 0
    /\ UNCHANGED <<ledgerVars, products_json, writerVars, transaction_counter,
                   iteration, nviews, page_views, transaction_items, valid,
                   basket, tx_doc, abandoned, workerVars>>
    /\ UNCHANGED <<pageVars, runs, catalogVars>>

\* The gate of the session-derived transaction (data_generator.py:330).
\* One cart line of the for loop (data_generator.py:334-346).
CartLine ==
    /\ pc = "cart"
    /\ line <= Len(cart_contents)
    /\ LET prod_id == cart_contents[line].product_id
           quantity == cart_contents[line].quantity
           ok == update_stock_ok(stock, prod_id, quantity)
           last == line = Len(cart_contents)
       IN  IF quantity > 0
           THEN /\ CanAcquire(lock, "main")
                /\ taken' = Take(taken, prod_id, quantity, ok)
                /\ lin_stock' = update_stock(lin_stock, prod_id, quantity)
                /\ IF ok
                   THEN /\ stock' = update_stock(stock, prod_id, quantity)
                        /\ transaction_items' =
                              Append(transaction_items,
                                     Item(prod_id, quantity,
                                          cart_contents[line].price))
                        /\ line' = line + 1
                        /\ pc' = IF last THEN "commit" ELSE "cart"
                        /\ UNCHANGED <<valid, abandoned>>
                   ELSE /\ stock' = OnLineFailure(
                                      update_stock(stock, prod_id, quantity),
                                      transaction_items)
                        /\ valid' = FALSE
                        /\ abandoned' = abandoned \cup {session_id}
                        /\ pc' = "commit"
                        /\ UNCHANGED <<transaction_items, line>>
           ELSE /\ line' = line + 1
                /\ pc' = IF last THEN "commit" ELSE "cart"
                /\ UNCHANGED <<stock, taken, lin_stock, transaction_items,
                               valid, abandoned>>
    /\ UNCHANGED <<lock, stock0, call, products_json, writerVars, chunkVars,
                   counterVars, sessionVars, basket, tx_doc, workerVars>>
    /\ UNCHANGED <<pageVars, runs, catalogVars>>

\* if valid and transaction_items: ... write_tx (data_generator.py:348-369)
CommitSessionTx ==
    /\ pc = "commit"
    /\ IF ShouldCommit(valid, transaction_items)
       THEN \E doc \in TxDocs(transaction_counter + 1, session_id,
                              transaction_items, {"completed"}) :
              /\ tx_doc' = doc
              /\ tx_file' = write_tx(tx_file, first_tx, doc)
              /\ first_tx' = FALSE
              /\ sold' = Sell(sold, transaction_items)
              /\ transaction_counter' = transaction_counter + 1
       ELSE UNCHANGED <<tx_doc, tx_file, first_tx, sold, transaction_counter>>
    /\ pc' = "basket"
    /\ UNCHANGED <<ledgerVars, products_json, tx_closed, chunkVars,
                   session_counter, iteration, sessionVars, transaction_items,
                   valid, line, basket, abandoned, workerVars>>
    /\ UNCHANGED <<pageVars, runs, catalogVars>>

\* random.sample(products, k): ordered, without repetition
Samples(k) ==
    {sq \in [1..k -> Products] :
        \A a, b \in 1..k : a # b => sq[a] # sq[b]}

\* The gate of the extra transaction and its sample
\* (data_generator.py:372-376).
BasketGate ==
    /\ pc = "basket"
    /\ \/ /\ BelowTarget(transaction_counter, NUM_TRANSACTIONS)
          /\ \E sq \in Samples(Min(MaxBasketSize, Cardinality(Products))) :
               basket' = sq
          /\ line' = 1
          /\ pc' = "bitem"
       \/ /\ pc' = "loop"
          /\ line' = 0
          /\ UNCHANGED basket
    /\ ClearSession
    /\ transaction_items' = <<>>
    /\ valid' = TRUE
    /\ tx_doc' = NoTx
    /\ UNCHANGED <<ledgerVars, products_json, writerVars, chunkVars,
                   counterVars, abandoned, workerVars>>
    /\ UNCHANGED <<pageVars, runs, catalogVars>>

\* One product of the basket (data_generator.py:377-386).
BasketItem ==
    /\ pc = "bitem"
    /\ line <= Len(basket)
    /\ LET product == basket[line]
           last == line = Len(basket)
       IN  /\ IF is_active[product]
              THEN /\ CanAcquire(lock, "main")
                   /\ \E quantity \in 1..MaxBasketQty :
                        LET ok == update_stock_ok(stock, product, quantity)
                        IN  /\ stock' = update_stock(stock, product, quantity)
                            /\ taken' = Take(taken, product, quantity, ok)
                            /\ lin_stock' =
                                 update_stock(lin_stock, product, quantity)
                            /\ transaction_items' =
                                 IF ok
                                 THEN Append(transaction_items,
                                             Item(product, quantity,
                                                  base_price[product]))
                                 ELSE transaction_items
              ELSE UNCHANGED <<stock, taken, lin_stock, transaction_items>>
           /\ line' = line + 1
           /\ pc' = IF last THEN "bcommit" ELSE "bitem"
    /\ UNCHANGED <<lock, stock0, call, products_json, writerVars, chunkVars,
                   counterVars, sessionVars, valid, basket, tx_doc, abandoned,
                   workerVars>>
    /\ UNCHANGED <<pageVars, runs, catalogVars>>

ShouldCommitBasket_Always(items) == TRUE

\* if transaction_items:
ShouldCommitBasket(items) == items # <<>>

\* if transaction_items: ... write_tx (data_generator.py:388-409)
BasketCommit ==
    /\ pc = "bcommit"
    /\ IF ShouldCommitBasket(transaction_items)
       THEN \E doc \in TxDocs(transaction_counter + 1, None,
                              transaction_items, BasketStatuses) :
              /\ tx_doc' = doc
              /\ tx_file' = write_tx(tx_file, first_tx, doc)
              /\ first_tx' = FALSE
              /\ sold' = Sell(sold, transaction_items)
              /\ transaction_counter' = transaction_counter + 1
       ELSE UNCHANGED <<tx_doc, tx_file, first_tx, sold, transaction_counter>>
    /\ pc' = "loop"
    /\ UNCHANGED <<ledgerVars, products_json, tx_closed, chunkVars,
                   session_counter, iteration, sessionVars, transaction_items,
                   valid, line, basket, abandoned, workerVars>>
    /\ UNCHANGED <<pageVars, runs, catalogVars>>

(***************************************************************************)
(* The epilogue (data_generator.py:414-423).                               *)
(***************************************************************************)
FlushRemaining ==
    /\ pc = "flush"
    /\ LET fl == flush_sessions(chunk_sessions, chunk_index, session_files)
       IN  /\ chunk_sessions' = fl[1]
           /\ chunk_index' = fl[2]
           /\ session_files' = fl[3]
    /\ chunk_size' = chunk_size
    /\ pc' = "close"
    /\ UNCHANGED <<ledgerVars, products_json, writerVars, counterVars,
                   sessionVars, txVars, workerVars>>
    /\ UNCHANGED <<pageVars, runs, catalogVars>>

CloseTxFile ==
    /\ pc = "close"
    /\ tx_file' = Append(tx_file, CloseBracket)
    /\ tx_closed' = TRUE
    /\ pc' = "resave"
    /\ UNCHANGED <<ledgerVars, products_json, first_tx, sold, chunkVars,
                   counterVars, sessionVars, txVars, workerVars>>
    /\ UNCHANGED <<pageVars, runs, catalogVars>>

ResaveProducts ==
    /\ pc = "resave"
    /\ products_json' = Snapshot(stock)
    /\ pc' = "done"
    /\ UNCHANGED <<ledgerVars, writerVars, chunkVars, counterVars,
                   sessionVars, txVars, workerVars>>
    /\ UNCHANGED <<pageVars, runs, catalogVars>>

Next ==
    \/ LoopEnter
    \/ LoopExit
    \/ GenerateSession
    \/ CartLine
    \/ CommitSessionTx
    \/ BasketGate
    \/ BasketItem
    \/ BasketCommit
    \/ FlushRemaining
    \/ CloseTxFile
    \/ ResaveProducts

Spec == Init /\ [][Next]_vars

\* The run under any configured chunk size, valid or not: the script reads
\* CHUNK_SIZE (data_generator.py:25) and goes straight on to generate.
ConfiguredChunkSizes == (0 - BadChunk)..CHUNK_SIZE

InitConfig == InitSized(InitialStock, ConfiguredChunkSizes)

SpecConfig == InitConfig /\ [][Next]_vars

(***************************************************************************)
(* A concurrent caller of InventoryManager.update_stock                    *)
(* (data_generator.py:47-54), statement by statement.                      *)
(***************************************************************************)
\* with self.lock: the caller w enters with its arguments and makes the two
\* tests; on failure it returns False, which releases the lock.
WBegin(w, ids, quantities, calls) ==
    /\ wpc[w] = "idle"
    /\ wcalls[w] < calls
    /\ CanAcquire(lock, w)
    /\ \E product_id \in ids, quantity \in quantities :
         /\ lin_ret' = [lin_ret EXCEPT
                          ![w] = Ret(update_stock_ok(lin_stock, product_id,
                                                     quantity))]
         /\ lin_stock' = update_stock(lin_stock, product_id, quantity)
         /\ IF update_stock_ok(stock, product_id, quantity)
            THEN /\ lock' = w
                 /\ wprod' = [wprod EXCEPT ![w] = product_id]
                 /\ wqty' = [wqty EXCEPT ![w] = quantity]
                 /\ wpc' = [wpc EXCEPT ![w] = "update"]
                 /\ wret' = [wret EXCEPT ![w] = "none"]
                 /\ UNCHANGED wcalls
            ELSE /\ wret' = [wret EXCEPT ![w] = Ret(FALSE)]
                 /\ wcalls' = [wcalls EXCEPT ![w] = @ + 1]
                 /\ UNCHANGED <<lock, wprod, wqty, wpc>>
    /\ UNCHANGED <<stock, stock0, taken, call, products_json, writerVars,
                   chunkVars, counterVars, pc, sessionVars, txVars>>
    /\ UNCHANGED <<pageVars, runs, catalogVars>>

\* current_stock -= quantity; return True, which releases the lock.
WUpdate(w) ==
    /\ wpc[w] = "update"
    /\ stock' = [stock EXCEPT ![wprod[w]] = @ - wqty[w]]
    /\ taken' = Take(taken, wprod[w], wqty[w], TRUE)
    /\ wpc' = [wpc EXCEPT ![w] = "idle"]
    /\ wret' = [wret EXCEPT ![w] = Ret(TRUE)]
    /\ wcalls' = [wcalls EXCEPT ![w] = @ + 1]
    /\ lock' = IF lock = w THEN NoOwner ELSE lock
    /\ wprod' = [wprod EXCEPT ![w] = NoProduct]
    /\ wqty' = [wqty EXCEPT ![w] = 0]
    /\ UNCHANGED <<stock0, lin_stock, lin_ret, call, products_json,
                   writerVars, chunkVars, counterVars, pc, sessionVars,
                   txVars>>
    /\ UNCHANGED <<pageVars, runs, catalogVars>>

\* The quantities the generation code passes: cart quantities and 1..3.
RunQuantities == 1..MaxBasketQty

\* A generation run with one more caller of the ledger beside it.
RunWorkers == {"w1"}

WorkerStep ==
    \E w \in RunWorkers :
        \/ WBegin(w, Products, RunQuantities, MaxCalls)
        \/ WUpdate(w)

NextMW == Next \/ WorkerStep

\* The run with the default chunk size.
InitDefault == Init /\ chunk_size = CHUNK_SIZE

SpecMW == InitDefault /\ [][NextMW]_vars

\* The ledger alone, called by several workers with any arguments.
ApiIds == Products \cup {"prod_unknown"}
ApiQuantities == (0 - NegQty)..MaxBasketQty

\* One call of update_stock on its own, with what it saw, left and returned.
UpdateStockCall ==
    /\ call.n < LedgerCalls
    /\ CanAcquire(lock, "api")
    /\ \E product_id \in Products, quantity \in ApiQuantities :
         /\ stock' = update_stock(stock, product_id, quantity)
         /\ lin_stock' = update_stock(lin_stock, product_id, quantity)
         /\ taken' = Take(taken, product_id, quantity,
                          update_stock_ok(stock, product_id, quantity))
         /\ call' = [n |-> call.n + 1, product_id |-> product_id,
                     quantity |-> quantity, before |-> stock[product_id],
                     after |-> stock'[product_id],
                     ret |-> update_stock_ok(stock, product_id, quantity)]
    /\ UNCHANGED <<lock, stock0, products_json, writerVars, chunkVars,
                   counterVars, pc, sessionVars, txVars, workerVars>>
    /\ UNCHANGED <<pageVars, runs, catalogVars>>

NextLedger ==
    \/ UpdateStockCall
    \/ \E w \in Workers :
        \/ WBegin(w, ApiIds, ApiQuantities, LedgerCalls)
        \/ WUpdate(w)

SpecLedger == InitDefault /\ [][NextLedger]_vars

(***************************************************************************)
(* One session block, statement by statement (data_generator.py:259-321),  *)
(* on any ledger a run can have reached.                                   *)
(***************************************************************************)
\* The ledger as built, and as one earlier decrement can have left it.
PageLedgers ==
    {InitialStock}
    \cup {update_stock(InitialStock, p, q) : p \in Products, q \in RunQuantities}

InitPages == \E s \in PageLedgers : InitWith(s) /\ chunk_size = CHUNK_SIZE

RECURSIVE Insert(_, _)
Insert(x, sq) ==
    IF sq = <<>> THEN <<x>>
    ELSE IF x <= Head(sq) THEN <<x>> \o sq
    ELSE <<Head(sq)>> \o Insert(x, Tail(sq))

RECURSIVE sorted(_)
sorted(sq) == IF sq = <<>> THEN <<>> ELSE Insert(Head(sq), sorted(Tail(sq)))

\* [random.randint(1, session_duration - 1) for _ in range(n)]
InteriorPoints(n, duration) == [1..n -> 1..Min(duration - 1, MaxPoint)]

\* time_slots[i+1] - time_slots[i], the sequence being indexed from 1 here
view_duration(slots, k) == slots[k + 2] - slots[k + 1]

PageViewAt(ptype, prod, cat, duration) ==
    [page_type |-> ptype, product_id |-> prod, category_id |-> cat,
     view_duration |-> duration]

\* if session_counter < NUM_SESSIONS: ... page_views = []; cart_contents = {}
BeginSession ==
    /\ pc = "loop"
    /\ session_counter < NUM_SESSIONS
    /\ iteration' = NextIteration(iteration)
    /\ session_id' = session_counter + 1
    /\ page_views' = <<>>
    /\ cart_contents' = <<>>
    /\ pc' = "slots"
    /\ UNCHANGED <<ledgerVars, products_json, writerVars, chunkVars,
                   session_counter, transaction_counter, nviews, converted,
                   session_doc, txVars, workerVars, pageVars, runs>>
    /\ UNCHANGED catalogVars

\* session_duration and time_slots (data_generator.py:263, 269)
DrawTimeSlots ==
    /\ pc = "slots"
    /\ \E duration \in MinDuration..MaxDuration,
          n \in MinInterior..MaxPagePoints :
         \E points \in InteriorPoints(n, duration) :
           /\ session_duration' = duration
           /\ time_slots' = sorted(<<0>> \o points \o <<duration>>)
           /\ nviews' = n + 1
    /\ view_i' = 0
    /\ pc' = "ptype"
    /\ UNCHANGED <<ledgerVars, products_json, writerVars, chunkVars,
                   counterVars, session_id, page_views, cart_contents,
                   converted, session_doc, txVars, workerVars, view_type,
                   view_product, view_category, view_attempts, runs>>
    /\ UNCHANGED catalogVars

\* page_type = determine_page_type(i, page_views)
DeterminePageType ==
    /\ pc = "ptype"
    /\ view_i < nviews
    /\ view_type' \in determine_page_type(view_i, page_views)
    /\ view_attempts' = 0
    /\ pc' = "content"
    /\ UNCHANGED <<ledgerVars, products_json, writerVars, chunkVars,
                   counterVars, sessionVars, txVars, workerVars,
                   session_duration, time_slots, view_i, view_product,
                   view_category, runs>>
    /\ UNCHANGED catalogVars

\* get_page_content, product_detail: one pass of the while loop
ContentAttempt ==
    /\ pc = "content"
    /\ view_type = "product_detail"
    /\ view_attempts < MaxAttempts
    /\ \E candidate \in Products :
         IF Available(stock, candidate)
         THEN /\ view_product' = candidate
              /\ view_category' = category_id[candidate]
              /\ pc' = "addcart"
              /\ UNCHANGED view_attempts
         ELSE /\ view_attempts' = view_attempts + 1
              /\ UNCHANGED <<view_product, view_category, pc>>
    /\ UNCHANGED <<ledgerVars, products_json, writerVars, chunkVars,
                   counterVars, sessionVars, txVars, workerVars,
                   session_duration, time_slots, view_i, view_type, runs>>
    /\ UNCHANGED catalogVars

\* get_page_content, product_detail: the draw after the loop
ContentFallback ==
    /\ pc = "content"
    /\ view_type = "product_detail"
    /\ view_attempts >= MaxAttempts
    /\ \E candidate \in Products :
         /\ view_product' = candidate
         /\ view_category' = category_id[candidate]
    /\ pc' = "addcart"
    /\ UNCHANGED <<ledgerVars, products_json, writerVars, chunkVars,
                   counterVars, sessionVars, txVars, workerVars,
                   session_duration, time_slots, view_i, view_type,
                   view_attempts, runs>>
    /\ UNCHANGED catalogVars

\* get_page_content, the other page types
ContentOther ==
    /\ pc = "content"
    /\ view_type # "product_detail"
    /\ view_product' = NoProduct
    /\ IF view_type = "category_listing"
       THEN view_category' \in Categories
       ELSE view_category' = NoCategory
    /\ pc' = "addcart"
    /\ UNCHANGED <<ledgerVars, products_json, writerVars, chunkVars,
                   counterVars, sessionVars, txVars, workerVars,
                   session_duration, time_slots, view_i, view_type,
                   view_attempts, runs>>
    /\ UNCHANGED catalogVars

\* The cart accumulation and page_views.append (data_generator.py:276-295)
AppendPageView ==
    /\ pc = "addcart"
    /\ cart_contents' \in
         IF view_type = "product_detail" /\ view_product # NoProduct
         THEN {cart_contents} \cup AddToCart(cart_contents, view_product, stock)
         ELSE {cart_contents}
    /\ page_views' =
         Append(page_views,
                PageViewAt(view_type, view_product, view_category,
                           view_duration(time_slots, view_i)))
    /\ view_i' = view_i + 1
    /\ pc' = IF view_i + 1 = nviews THEN "classify" ELSE "ptype"
    /\ UNCHANGED <<ledgerVars, products_json, writerVars, chunkVars,
                   counterVars, session_id, nviews, converted, session_doc,
                   txVars, workerVars, session_duration, time_slots,
                   view_type, view_product, view_category, view_attempts,
                   runs>>
    /\ UNCHANGED catalogVars

\* converted and session_doc (data_generator.py:297-321)
Classify ==
    /\ pc = "classify"
    /\ \E conv \in Conversions(cart_contents, ReachedCheckout(page_views)) :
         /\ converted' = conv
         /\ session_doc' =
              [session_id |-> session_id,
               conversion_status |-> conversion_status(conv, cart_contents),
               cart_contents |-> PositiveLines(cart_contents)]
    /\ pc' = "classified"
    /\ UNCHANGED <<ledgerVars, products_json, writerVars, chunkVars,
                   counterVars, session_id, nviews, page_views, cart_contents,
                   txVars, workerVars, pageVars, runs>>
    /\ UNCHANGED catalogVars

NextPages ==
    \/ BeginSession
    \/ DrawTimeSlots
    \/ DeterminePageType
    \/ ContentAttempt
    \/ ContentFallback
    \/ ContentOther
    \/ AppendPageView
    \/ Classify

SpecPages == InitPages /\ [][NextPages]_vars

(***************************************************************************)
(* determine_page_type called on its own, with any position and history,   *)
(* also a history whose last page type the transition table does not know. *)
(***************************************************************************)
Histories ==
    UNION {[1..n -> {PageViewAt(t, NoProduct, NoCategory, 1) :
                        t \in PageTypes \cup {"unknown_page"}}] :
              n \in 0..MaxHistory}

DeterminePageTypeCall ==
    /\ \E position \in 0..MaxPosition, previous_pages \in Histories :
         /\ view_i' = position
         /\ page_views' = previous_pages
         /\ view_type' \in determine_page_type(position, previous_pages)
    /\ UNCHANGED <<ledgerVars, products_json, writerVars, chunkVars,
                   counterVars, pc, session_id, nviews, cart_contents,
                   converted, session_doc, txVars, workerVars,
                   session_duration, time_slots, view_product, view_category,
                   view_attempts, runs>>
    /\ UNCHANGED catalogVars

SpecPageType == InitDefault /\ [][DeterminePageTypeCall]_vars

(***************************************************************************)
(* Two runs of the script, for what the output depends on.  The random,    *)
(* numpy and Faker generators are seeded (data_generator.py:28-30): their  *)
(* k-th draw is a function of the seed.  uuid.uuid4() and datetime.now()   *)
(* are not: they take any value.  Dates are in days.                       *)
(***************************************************************************)
\* The k-th draw of a generator seeded with seed.
Prng(seed, k) == (seed + 3 * k) % 7

\* uuid.uuid4().hex[:10] and [:12], by the value uuid4 returned
generate_session_id(u) == <<"sess", u>>

generate_transaction_id(u) == <<"txn", u>>

\* fake.date_time_between(start, end): a seeded draw within the interval
date_time_between(start, end, draw) == start + (draw % (end - start + 1))

\* random.seed(42) ...; datetime.datetime.now() as the run starts
StartRun(r) ==
    /\ runs[r].phase = "off"
    /\ \E now \in 0..MaxClock :
         runs' = [runs EXCEPT ![r] = [@ EXCEPT !.phase = "seeded",
                                              !.seed = SEED,
                                              !.now = now]]
    /\ UNCHANGED <<ledgerVars, products_json, writerVars, chunkVars,
                   counterVars, pc, sessionVars, txVars, workerVars, pageVars,
                   catalogVars>>

\* One product of the catalog (data_generator.py:156-188)
BuildCatalog(r) ==
    /\ runs[r].phase = "seeded"
    /\ LET run == runs[r]
           product_creation_start == run.now - TIMESPAN_DAYS * 2
           creation_date ==
               date_time_between(product_creation_start,
                                 product_creation_start + TIMESPAN_DAYS \div 3,
                                 Prng(run.seed, run.draws + 1))
           prod == [product_id |-> "prod_00000",
                    base_price |-> 500 + Prng(run.seed, run.draws),
                    creation_date |-> creation_date]
       IN  runs' = [runs EXCEPT ![r] = [@ EXCEPT !.phase = "running",
                                                !.draws = @ + 2,
                                                !.catalog = <<prod>>]]
    /\ UNCHANGED <<ledgerVars, products_json, writerVars, chunkVars,
                   counterVars, pc, sessionVars, txVars, workerVars, pageVars,
                   catalogVars>>

\* The seeded draw (random.random() < 0.2, data_generator.py:372) that decides
\* whether the run emits a basket transaction or goes on to the next session.
NextIsSession(run) == Prng(run.seed, run.draws) % 2 = 0

\* A session document: its id, start time and duration
\* (data_generator.py:261-263, 304-309)
EmitSession(r) ==
    /\ runs[r].phase = "running"
    /\ Len(runs[r].out) < MaxRecords
    /\ NextIsSession(runs[r])
    /\ \E u \in 0..MaxUuid :
         LET run == runs[r]
             doc == [session_id |-> generate_session_id(u),
                     start_time |->
                         date_time_between(run.now - TIMESPAN_DAYS, run.now,
                                           Prng(run.seed, run.draws + 1)),
                     duration_seconds |->
                         MinDuration + Prng(run.seed, run.draws + 2)]
         IN  runs' = [runs EXCEPT ![r] = [@ EXCEPT !.draws = @ + 3,
                                                  !.out = Append(@, doc)]]
    /\ UNCHANGED <<ledgerVars, products_json, writerVars, chunkVars,
                   counterVars, pc, sessionVars, txVars, workerVars, pageVars,
                   catalogVars>>

\* A basket transaction: its id and timestamp (data_generator.py:396-400)
EmitTransaction(r) ==
    /\ runs[r].phase = "running"
    /\ Len(runs[r].out) < MaxRecords
    /\ ~NextIsSession(runs[r])
    /\ \E u \in 0..MaxUuid :
         LET run == runs[r]
             doc == [transaction_id |-> generate_transaction_id(u),
                     timestamp |->
                         date_time_between(run.now - TIMESPAN_DAYS, run.now,
                                           Prng(run.seed, run.draws + 1))]
         IN  runs' = [runs EXCEPT ![r] = [@ EXCEPT !.draws = @ + 2,
                                                  !.out = Append(@, doc)]]
    /\ UNCHANGED <<ledgerVars, products_json, writerVars, chunkVars,
                   counterVars, pc, sessionVars, txVars, workerVars, pageVars,
                   catalogVars>>

NextRuns ==
    \E r \in Runs :
        \/ StartRun(r)
        \/ BuildCatalog(r)
        \/ EmitSession(r)
        \/ EmitTransaction(r)

SpecRuns == InitDefault /\ [][NextRuns]_vars

(***************************************************************************)
(* write_tx (data_generator.py:229-234) called by several producers of     *)
(* transactions at once, statement by statement.  The function takes no    *)
(* lock: its statements interleave with those of another call.             *)
(***************************************************************************)
\* The document the n-th call of producer w passes.
WriterDoc(w, n) ==
    [NoTx EXCEPT !.transaction_id = 2 * n + (IF w = "w1" THEN 1 ELSE 2)]

\* if not first_tx:
WtTest(w) ==
    /\ wpc[w] = "idle"
    /\ wcalls[w] < WriterCalls
    /\ wpc' = [wpc EXCEPT ![w] = IF NeedsSeparator(first_tx)
                                 THEN "separator" ELSE "element"]
    /\ UNCHANGED <<ledgerVars, products_json, writerVars, chunkVars,
                   counterVars, pc, sessionVars, txVars, wprod, wqty, wret,
                   wcalls, lin_ret, pageVars, runs>>
    /\ UNCHANGED catalogVars

\* tx_file.write(",\n")
WtSeparator(w) ==
    /\ wpc[w] = "separator"
    /\ tx_file' = Append(tx_file, Separator)
    /\ wpc' = [wpc EXCEPT ![w] = "element"]
    /\ UNCHANGED <<ledgerVars, products_json, tx_closed, first_tx, sold,
                   chunkVars, counterVars, pc, sessionVars, txVars, wprod,
                   wqty, wret, wcalls, lin_ret, pageVars, runs>>
    /\ UNCHANGED catalogVars

\* tx_file.write(json.dumps(doc, default=json_serializer))
WtElement(w) ==
    /\ wpc[w] = "element"
    /\ tx_file' = Append(tx_file, Token("elem", WriterDoc(w, wcalls[w])))
    /\ wpc' = [wpc EXCEPT ![w] = "flag"]
    /\ UNCHANGED <<ledgerVars, products_json, tx_closed, first_tx, sold,
                   chunkVars, counterVars, pc, sessionVars, txVars, wprod,
                   wqty, wret, wcalls, lin_ret, pageVars, runs>>
    /\ UNCHANGED catalogVars

\* first_tx = False, and the call returns
WtFlag(w) ==
    /\ wpc[w] = "flag"
    /\ first_tx' = FALSE
    /\ wpc' = [wpc EXCEPT ![w] = "idle"]
    /\ wcalls' = [wcalls EXCEPT ![w] = @ + 1]
    /\ UNCHANGED <<ledgerVars, products_json, tx_file, tx_closed, sold,
                   chunkVars, counterVars, pc, sessionVars, txVars, wprod,
                   wqty, wret, lin_ret, pageVars, runs>>
    /\ UNCHANGED catalogVars

NextWriter ==
    \E w \in Workers :
        \/ WtTest(w)
        \/ WtSeparator(w)
        \/ WtElement(w)
        \/ WtFlag(w)

SpecWriter == InitDefault /\ [][NextWriter]_vars

(***************************************************************************)
(* The page-view loop (data_generator.py:271-295) followed for its page    *)
(* types: determine_page_type reads nothing of a page view but page_type,  *)
(* so content and duration are left out of the views here.                 *)
(***************************************************************************)
PageTypeStep ==
    /\ Len(page_views) < MaxWalk
    /\ \E t \in determine_page_type(Len(page_views), page_views) :
         /\ view_type' = t
         /\ page_views' = Append(page_views,
                                 PageViewAt(t, NoProduct, NoCategory, 1))
    /\ view_i' = Len(page_views)
    /\ UNCHANGED <<ledgerVars, products_json, writerVars, chunkVars,
                   counterVars, pc, session_id, nviews, cart_contents,
                   converted, session_doc, txVars, workerVars,
                   session_duration, time_slots, view_product, view_category,
                   view_attempts, runs>>
    /\ UNCHANGED catalogVars

SpecWalk == InitDefault /\ [][PageTypeStep]_vars

(***************************************************************************)
(* The body of the product loop (data_generator.py:158-188), for one       *)
(* product.  Prices are in cents, dates in days.                           *)
(***************************************************************************)
\* round(random.uniform(5, 500), 2): two of the values it takes
BasePrices == {500, 1999}

\* round(base_price * random.uniform(0.8, 1.2), 2): the ends and the middle
NewPrices(price) == {(price * 80) \div 100, price, (price * 120) \div 100}

PriceEntry(price, date) == [price |-> price, date |-> date]

RECURSIVE InsertByDate(_, _)
InsertByDate(x, sq) ==
    IF sq = <<>> THEN <<x>>
    ELSE IF x.date <= Head(sq).date THEN <<x>> \o sq
    ELSE <<Head(sq)>> \o InsertByDate(x, Tail(sq))

RECURSIVE sort_by_date(_)
\* price_history.sort(key=lambda x: x["date"]): stable
sort_by_date(sq) ==
    IF sq = <<>> THEN <<>>
    ELSE InsertByDate(Head(sq), sort_by_date(Tail(sq)))

current_price_First(history) == history[1].price

\* current_price = price_history[-1]["price"]
current_price(history) == history[Len(history)].price

\* base_price, initial_date, the first entry of price_history and the number
\* of price changes (data_generator.py:161-169)
DrawProductBase ==
    /\ prod_pc = "draw"
    /\ \E price \in BasePrices, date \in 0..MaxInitialDay,
          changes \in 0..MaxPriceChanges :
         /\ drawn_price' = price
         /\ initial_date' = date
         /\ sampled_date' = date
         /\ price_history' = <<PriceEntry(price, date)>>
         /\ price_changes' = changes
    /\ prod_pc' = "changes"
    /\ UNCHANGED <<ledgerVars, products_json, writerVars, chunkVars,
                   counterVars, pc, sessionVars, txVars, workerVars, pageVars,
                   runs, product_doc>>

\* One pass of the price-change loop (data_generator.py:170-174)
PriceChange ==
    /\ prod_pc = "changes"
    /\ price_changes > 0
    /\ \E price_change_date \in initial_date..NowDay,
          new_price \in NewPrices(drawn_price) :
         /\ price_history' =
                Append(price_history, PriceEntry(new_price, price_change_date))
         /\ initial_date' = price_change_date
    /\ price_changes' = price_changes - 1
    /\ UNCHANGED <<ledgerVars, products_json, writerVars, chunkVars,
                   counterVars, pc, sessionVars, txVars, workerVars, pageVars,
                   runs, prod_pc, drawn_price, sampled_date, product_doc>>

\* The sort, current_price and products.append (data_generator.py:176-188)
AppendProduct ==
    /\ prod_pc = "changes"
    /\ price_changes = 0
    /\ LET history == sort_by_date(price_history)
       IN  /\ price_history' = history
           /\ product_doc' = [base_price |-> current_price(history),
                              price_history |-> history,
                              creation_date |-> history[1].date]
    /\ prod_pc' = "appended"
    /\ UNCHANGED <<ledgerVars, products_json, writerVars, chunkVars,
                   counterVars, pc, sessionVars, txVars, workerVars, pageVars,
                   runs, drawn_price, initial_date, sampled_date,
                   price_changes>>

NextCatalog ==
    \/ DrawProductBase
    \/ PriceChange
    \/ AppendProduct

SpecCatalog == InitDefault /\ [][NextCatalog]_vars

(***************************************************************************)
(* Properties.                                                             *)
(***************************************************************************)

\* C1: in every state of a generation run, also with another caller of
\* update_stock running beside it, every product's current_stock is >= 0.
C1_StockNonNegative == \A p \in Products : stock[p] >= 0

\* The run and the other caller both took from a product, down to zero.
C1_Witness ==
    \E p \in Products :
        /\ stock[p] = 0
        /\ sold[p] >= 1
        /\ taken[p] > sold[p]
        /\ wret["w1"] = "True"

\* C2: update_stock(product_id, quantity) on a known product returns True and
\* reduces the stock by quantity iff quantity > 0 and stock >= quantity;
\* otherwise it returns False and leaves the stock unchanged.
C2_UpdateStockContract ==
    call.n > 0 =>
        LET accept == call.quantity > 0 /\ call.before >= call.quantity
        IN  /\ call.ret = accept
            /\ call.after = IF accept THEN call.before - call.quantity
                            ELSE call.before

\* C3: concurrent calls of update_stock behave as if run one at a time in the
\* order they took the lock: same return values, same ledger once no call is
\* inside, no stock below zero, and the quantities decremented add up to
\* initial stock minus current stock.
C3_Linearizable ==
    /\ \A p \in Products : stock[p] >= 0
    /\ lock = NoOwner => stock = lin_stock
    /\ \A w \in Workers : wret[w] # "none" => wret[w] = lin_ret[w]
    /\ \A p \in Products : stock0[p] - stock[p] = taken[p]

\* Two workers went for the units of one product; one got the last one and
\* the other was refused.
C3_Witness ==
    /\ wret["w1"] = "True"
    /\ wret["w2"] = "False"
    /\ \E p \in Products : stock[p] = 0 /\ taken[p] = stock0[p]

\* C4: a session whose cart conversion met a failing update_stock never has a
\* transaction record in the stream, and giving up leaves transaction_counter
\* and the stream as they were.
C4_AllOrNothing ==
    /\ [](\A i \in 1..Len(tx_file) :
            tx_file[i].tok = "elem" => tx_file[i].session_id \notin abandoned)
    /\ [][(pc = "commit" /\ ~valid /\ pc' # "commit") =>
            (transaction_counter' = transaction_counter /\ tx_file' = tx_file)]_vars

\* The commit of a session was skipped although lines had been decremented.
C4_Witness ==
    /\ pc = "basket"
    /\ ~valid
    /\ transaction_items # <<>>
    /\ session_id \in abandoned

\* C5: the first failing cart line changes no stock and ends the loop over
\* the cart; the lines decremented before it stay decremented, stock is never
\* given back, and no transaction is written for the session.
C5_NoRollback ==
    /\ [][(pc = "cart" /\ ~valid') =>
            /\ stock' = stock
            /\ pc' = "commit"
            /\ line' = line
            /\ transaction_items' = transaction_items
            /\ tx_file' = tx_file]_vars
    /\ [][(pc = "commit" /\ ~valid /\ pc' # "commit") =>
            (pc' = "basket" /\ stock' = stock /\ tx_file' = tx_file)]_vars
    /\ [][\A p \in Products : stock'[p] <= stock[p]]_vars
    /\ []((~valid /\ pc \in {"commit", "basket"}) =>
            \A p \in Products :
                stock0[p] - stock[p] >=
                    sold[p] + ItemsQty(transaction_items, p))

\* Three products at stock 1 each, cart quantities [1, 1, 2]: the stocks end
\* as [0, 0, 1] and the stream has no record of the session.
C5_Witness ==
    /\ pc = "basket"
    /\ ~valid
    /\ Len(cart_contents) = 3
    /\ cart_contents[1].quantity = 1
    /\ cart_contents[2].quantity = 1
    /\ cart_contents[3].quantity = 2
    /\ stock[cart_contents[1].product_id] = 0
    /\ stock[cart_contents[2].product_id] = 0
    /\ stock[cart_contents[3].product_id] = 1
    /\ line = 3
    /\ Len(transaction_items) = 2
    /\ \A i \in 1..Len(tx_file) : tx_file[i].session_id # session_id

\* How far the script is from its end: the iterations left, then the
\* statements left in the iteration.
Rank ==
    CASE pc = "session" -> 15
      [] pc = "cart" -> 14 - line
      [] pc = "commit" -> 10
      [] pc = "basket" -> 9
      [] pc = "bitem" -> 9 - line
      [] pc = "bcommit" -> 5
      [] pc = "loop" -> 4
      [] pc = "flush" -> 3
      [] pc = "close" -> 2
      [] pc = "resave" -> 1
      [] OTHER -> 0

Measure == (MAX_ITERATIONS - iteration) * 16 + Rank

\* C6: the loop body runs at most MAX_ITERATIONS times and the run then
\* reaches its final state, sessions flushed and the stream closed, whatever
\* the random outcomes.
C6_Terminates ==
    /\ [](iteration <= MAX_ITERATIONS)
    /\ [][Measure' < Measure /\ Measure' >= 0]_vars
    /\ [](pc = "done" \/ ENABLED Next)
    /\ [](pc = "done" => tx_closed /\ chunk_sessions = <<>>)

\* A run that ended on the cap without a single transaction accepted.
C6_Witness ==
    /\ pc = "done"
    /\ iteration = MAX_ITERATIONS
    /\ transaction_counter = 0

\* C7: after the run, with a positive chunk size and S sessions produced,
\* every sessions_<N>.json but the last holds exactly chunk-size records and
\* the last holds S mod chunk-size, or a full chunk when that is 0.
C7_ChunkBound ==
    (pc = "done" /\ chunk_size > 0 /\ session_counter > 0) =>
        LET last == chunk_index - 1
            rest == session_counter % chunk_size
        IN  /\ chunk_index >= 1
            /\ DOMAIN session_files = 0..last
            /\ \A n \in 0..(last - 1) : Len(session_files[n]) = chunk_size
            /\ Len(session_files[last]) =
                   IF rest = 0 THEN chunk_size ELSE rest

\* A full chunk followed by a smaller last one.
C7_Witness ==
    /\ pc = "done"
    /\ chunk_index >= 2
    /\ Len(session_files[chunk_index - 1]) < chunk_size

\* The elements at the odd places and the separators at the even places
\* between the two brackets, the last place being an element.
WellFormedArray(f) ==
    /\ Len(f) >= 2
    /\ f[1] = OpenBracket
    /\ f[Len(f)] = CloseBracket
    /\ Len(f) > 2 => (Len(f) - 2) % 2 = 1
    /\ \A i \in 2..(Len(f) - 1) :
           f[i].tok = IF i % 2 = 0 THEN "elem" ELSE ","

\* C8: at the end of every run, on the targets or on the cap, transactions.json
\* is one opening bracket, the elements with a separator before each but the
\* first, one closing bracket, and nothing is written after that.
C8_WellFormedStream ==
    /\ [](pc = "done" => tx_closed)
    /\ [](tx_closed =>
            /\ WellFormedArray(tx_file)
            /\ Len(tx_file) =
                 2 + transaction_counter
                   + (IF transaction_counter > 0
                      THEN transaction_counter - 1 ELSE 0))
    /\ [][tx_closed => tx_file' = tx_file]_vars

\* A run that ended on the cap, short of its transactions, with one written.
C8_Witness ==
    /\ pc = "done"
    /\ iteration = MAX_ITERATIONS
    /\ transaction_counter = 1
    /\ transaction_counter < NUM_TRANSACTIONS

\* C9: on every loop exit the run flushes the buffered sessions, then closes
\* the stream, then re-serializes the catalog; that snapshot carries the final
\* stock and no decrement follows it.
C9_Epilogue ==
    /\ [](pc = "done" =>
            /\ chunk_sessions = <<>>
            /\ tx_closed
            /\ products_json = stock)
    /\ [][(~tx_closed /\ tx_closed') =>
            (chunk_sessions = <<>> /\ products_json' = products_json)]_vars
    /\ [][products_json' # products_json =>
            (tx_closed /\ chunk_sessions = <<>>)]_vars
    /\ [][(pc \in {"flush", "close", "resave", "done"}) => stock' = stock]_vars
    /\ [][(pc = "loop" /\ pc' # "loop" /\ ~LoopCond) => pc' = "flush"]_vars
    /\ [][(pc = "flush" /\ pc' # "flush") =>
            (pc' = "close" /\ chunk_sessions' = <<>>)]_vars

\* An exit on the cap, short of the transactions, after stock was decremented
\* and with a remainder of sessions to flush.
C9_Witness ==
    /\ pc = "done"
    /\ iteration = MAX_ITERATIONS
    /\ transaction_counter < NUM_TRANSACTIONS
    /\ products_json # stock0
    /\ chunk_index >= 2

\* discount is round(subtotal * r / 100) to the cent for some rate r.
IsRoundedShare(discount, subtotal) ==
    \E r \in DiscountRates :
        /\ 100 * discount - r * subtotal <= 50
        /\ r * subtotal - 100 * discount <= 50

\* C10: in every written transaction each item subtotal is quantity times
\* unit price, the subtotal is the sum of the item subtotals, the discount is
\* 0 or the subtotal times 5, 10, 15 or 20 percent rounded to the cent, and
\* total is subtotal minus discount; so 0 <= discount <= subtotal, total >= 0.
C10_Arithmetic ==
    tx_doc.transaction_id # 0 =>
        /\ \A i \in 1..Len(tx_doc.items) :
               tx_doc.items[i].subtotal =
                   tx_doc.items[i].quantity * tx_doc.items[i].unit_price
        /\ tx_doc.subtotal = SumSubtotals(tx_doc.items)
        /\ tx_doc.discount = 0 \/ IsRoundedShare(tx_doc.discount, tx_doc.subtotal)
        /\ tx_doc.total = tx_doc.subtotal - tx_doc.discount
        /\ 0 <= tx_doc.discount
        /\ tx_doc.discount <= tx_doc.subtotal
        /\ tx_doc.total >= 0

\* A written two-item transaction whose discount needed rounding.
C10_Witness ==
    /\ tx_doc.transaction_id # 0
    /\ Len(tx_doc.items) = 2
    /\ tx_doc.discount > 0
    /\ \A r \in DiscountRates : 100 * tx_doc.discount # r * tx_doc.subtotal

IsPrefix(a, b) == Len(a) <= Len(b) /\ SubSeq(b, 1, Len(a)) = a

\* C12: in the independent basket a product whose update_stock fails is left
\* out and the loop goes on with the items it has; a transaction is written
\* iff at least one decrement succeeded; a written basket transaction has 1
\* to 3 items on pairwise distinct, active products with quantities 1..3; and
\* the block is entered only while transaction_counter < NUM_TRANSACTIONS.
C12_IndependentBasket ==
    /\ []((tx_doc.transaction_id # 0 /\ tx_doc.session_id = None) =>
            /\ Len(tx_doc.items) \in 1..MaxBasketSize
            /\ \A a, b \in 1..Len(tx_doc.items) :
                 a # b => tx_doc.items[a].product_id # tx_doc.items[b].product_id
            /\ \A a \in 1..Len(tx_doc.items) :
                 /\ is_active[tx_doc.items[a].product_id]
                 /\ tx_doc.items[a].quantity \in 1..MaxBasketQty)
    /\ [][pc = "bitem" =>
            /\ IsPrefix(transaction_items, transaction_items')
            /\ line' = line + 1
            /\ pc' \in {"bitem", "bcommit"}
            /\ (stock' # stock) <=> (transaction_items' # transaction_items)]_vars
    /\ [][pc = "bcommit" =>
            /\ (transaction_items # <<>>) <=> (tx_file' # tx_file)
            /\ (transaction_items # <<>>) <=>
                   (transaction_counter' = transaction_counter + 1)
            /\ tx_file' # tx_file => tx_doc'.items = transaction_items]_vars
    /\ [][(pc = "basket" /\ pc' = "bitem") =>
            transaction_counter < NUM_TRANSACTIONS]_vars

\* A basket transaction written with one item while the other active product,
\* still in stock, was refused for the quantity asked.
C12_Witness ==
    /\ pc = "loop"
    /\ tx_doc.transaction_id # 0
    /\ tx_doc.session_id = None
    /\ Len(tx_doc.items) = 1
    /\ \E p \in Products :
         /\ is_active[p]
         /\ p # tx_doc.items[1].product_id
         /\ stock[p] > 0

\* C13: the counters never pass their targets nor the iteration its cap, also
\* when one iteration writes a session-derived and a basket transaction; and
\* the loop goes on exactly while (session_counter < NUM_SESSIONS or
\* transaction_counter < NUM_TRANSACTIONS) and iteration < MAX_ITERATIONS.
C13_TargetEnforcement ==
    /\ [](/\ session_counter <= NUM_SESSIONS
          /\ transaction_counter <= NUM_TRANSACTIONS
          /\ iteration <= MAX_ITERATIONS)
    /\ [][pc = "loop" =>
            LET go == /\ \/ session_counter < NUM_SESSIONS
                         \/ transaction_counter < NUM_TRANSACTIONS
                      /\ iteration < MAX_ITERATIONS
            IN  /\ go => (pc' \in {"session", "basket"}
                          /\ iteration' = iteration + 1)
                /\ ~go => (pc' = "flush" /\ iteration' = iteration)]_vars
    /\ [][pc' = "session" => session_counter < NUM_SESSIONS]_vars

\* The first iteration wrote both a session-derived and a basket transaction
\* and thereby met the transaction target.
C13_Witness ==
    /\ pc = "loop"
    /\ iteration = 1
    /\ transaction_counter = NUM_TRANSACTIONS
    /\ \E a, b \in 1..Len(tx_file) :
         /\ tx_file[a].tok = "elem" /\ tx_file[a].session_id # None
         /\ tx_file[b].tok = "elem" /\ tx_file[b].session_id = None

Elements(f) == {k \in 1..Len(f) : f[k].tok = "elem"}

Changed(s, t) == {p \in Products : s[p] # t[p]}

\* C20: stock changes only in a call of update_stock, which changes the stock
\* of the one product it names and of no other; session synthesis, the
\* transaction writer, the chunk writer and the catalog writer leave every
\* stock as it is.
C20_StockFrame ==
    /\ [][Cardinality(Changed(stock, stock')) <= 1]_vars
    /\ [][stock' # stock =>
            \/ /\ pc = "cart"
               /\ Changed(stock, stock') = {cart_contents[line].product_id}
            \/ /\ pc = "bitem"
               /\ Changed(stock, stock') = {basket[line]}
            \/ \E w \in Workers :
                 /\ wpc[w] = "update"
                 /\ Changed(stock, stock') = {wprod[w]}]_vars
    /\ [][(pc \notin {"cart", "bitem"} /\ pc' # pc) => stock' = stock]_vars
    /\ [][(tx_file' # tx_file \/ session_files' # session_files
             \/ products_json' # products_json) => stock' = stock]_vars

\* A session was synthesised with two cart lines, and the conversion of its
\* first line then changed the stock of that product alone.
C20_Witness ==
    /\ pc = "cart"
    /\ line = 2
    /\ Len(cart_contents) >= 2
    /\ Len(transaction_items) = 1
    /\ Changed(stock0, stock) = {cart_contents[1].product_id}

\* C11: a persisted session is converted only with a non-empty recorded cart
\* and a checkout or confirmation page view; otherwise it is abandoned iff
\* its recorded cart is non-empty and browsed iff it is empty.
C11_Classification ==
    pc = "classified" =>
        LET cart == session_doc.cart_contents
            status == session_doc.conversion_status
        IN  /\ status \in {"converted", "abandoned", "browsed"}
            /\ status = "converted" =>
                   (cart # <<>> /\ ReachedCheckout(page_views))
            /\ status # "converted" =>
                   /\ (status = "abandoned") <=> (cart # <<>>)
                   /\ (status = "browsed") <=> (cart = <<>>)

\* The successors the transition table lists for each page type.
TransitionTable ==
    [t \in PageTypes |->
       CASE t = "home" -> {"category_listing", "search", "product_detail"}
         [] t = "category_listing" ->
               {"product_detail", "category_listing", "search", "home"}
         [] t = "search" ->
               {"product_detail", "search", "category_listing", "home"}
         [] t = "product_detail" ->
               {"product_detail", "cart", "category_listing", "search", "home"}
         [] t = "cart" ->
               {"checkout", "product_detail", "category_listing", "home"}
         [] t = "checkout" -> {"confirmation", "cart", "home"}
         [] t = "confirmation" ->
               {"home", "product_detail", "category_listing"}]

\* C16: determine_page_type returns home, search or category_listing at
\* position 0; after a page type of the table one of its listed successors;
\* home after an unknown page type or on an empty history; and the call
\* changes nothing but its result.
C16_PageTransition ==
    /\ [](view_type # "none" =>
            IF view_i = 0
            THEN view_type \in {"home", "search", "category_listing"}
            ELSE IF page_views = <<>> THEN view_type = "home"
            ELSE LET prev_page == page_views[Len(page_views)].page_type
                 IN  IF prev_page \in PageTypes
                     THEN view_type \in TransitionTable[prev_page]
                     ELSE view_type = "home")
    /\ [][<<stock, cart_contents, session_doc, tx_file, session_files,
            products_json, counterVars>>' =
          <<stock, cart_contents, session_doc, tx_file, session_files,
            products_json, counterVars>>]_vars

\* A call at a later position on a history ending in an unknown page type.
C16_Witness ==
    /\ view_i > 0
    /\ page_views # <<>>
    /\ page_views[Len(page_views)].page_type = "unknown_page"
    /\ view_type = "home"

\* C17: for product_detail, get_page_content makes at most 10 draws looking
\* for an active product in stock and returns the first it finds; after 10
\* failures it returns one more product, whatever it is; for category_listing
\* it returns a category and no product, for the other page types neither;
\* it always returns.  So a page view has a product id iff it is a
\* product_detail view.
C17_ContentResolution ==
    /\ [](view_attempts \in 0..MaxAttempts)
    /\ [](pc = "content" => ENABLED NextPages)
    /\ [][pc = "content" =>
            \/ /\ pc' = "content"
               /\ view_type = "product_detail"
               /\ view_attempts' = view_attempts + 1
            \/ /\ pc' = "addcart"
               /\ view_attempts' = view_attempts
               /\ view_type = "product_detail" =>
                    /\ view_product' \in Products
                    /\ view_category' = category_id[view_product']
                    /\ view_attempts < MaxAttempts =>
                         /\ is_active[view_product']
                         /\ stock[view_product'] > 0
               /\ view_type = "category_listing" =>
                    (view_product' = NoProduct /\ view_category' \in Categories)
               /\ view_type \notin {"product_detail", "category_listing"} =>
                    (view_product' = NoProduct /\ view_category' = NoCategory)]_vars
    /\ [](\A k \in 1..Len(page_views) :
            (page_views[k].product_id # NoProduct) <=>
                (page_views[k].page_type = "product_detail"))

\* After ten failed draws a product_detail view got an inactive product.
C17_Witness ==
    /\ view_attempts = MaxAttempts
    /\ \E k \in 1..Len(page_views) :
         /\ page_views[k].page_type = "product_detail"
         /\ ~is_active[page_views[k].product_id]

QuantityIn(cart, p) ==
    IF InCart(cart, p) THEN cart[CartPos(cart, p)].quantity ELSE 0

C19_PositiveDurations ==
    \A k \in 1..Len(page_views) : page_views[k].view_duration > 0

\* C15: two runs with the same seed and configuration produce the same
\* catalog and the same sequence of sessions and transactions, ids and
\* timestamps included.
C15_Deterministic ==
    \A a, b \in Runs :
        (/\ runs[a].phase = "running" /\ runs[b].phase = "running"
         /\ Len(runs[a].out) = MaxRecords /\ Len(runs[b].out) = MaxRecords
         /\ runs[a].seed = runs[b].seed) =>
            /\ runs[a].catalog = runs[b].catalog
            /\ runs[a].out = runs[b].out

\* C24: in the sequential run no session-derived transaction is given up for
\* lack of stock: every update_stock call made for a cart line of a converted
\* session returns True, so valid is never set to False.
C24_NeverAbandoned ==
    /\ [](valid /\ abandoned = {})
    /\ [][(pc = "cart" /\ cart_contents[line].quantity > 0) =>
            /\ update_stock_ok(stock, cart_contents[line].product_id,
                               cart_contents[line].quantity)
            /\ stock'[cart_contents[line].product_id] =
                   stock[cart_contents[line].product_id]
                       - cart_contents[line].quantity
            /\ Len(transaction_items') = Len(transaction_items) + 1
            /\ valid']_vars

\* A converted session with two cart lines, one of them taking the whole
\* stock of 2 of its product, had both lines decremented.
C24_Witness ==
    /\ pc = "commit"
    /\ valid
    /\ Len(transaction_items) = 2
    /\ \E k \in 1..2 :
         /\ transaction_items[k].quantity = 2
         /\ stock[transaction_items[k].product_id] = 0

\* C25: in the sequential run, at the end of every loop iteration and for
\* every product, initial stock minus current stock equals the sum of the
\* quantities of its line items in the transactions written so far.
C25_StockConservation ==
    pc \in {"loop", "flush", "close", "resave", "done"} =>
        \A p \in Products : stock0[p] - stock[p] = sold[p]

\* Transactions on two products were written, one for two units.
C25_Witness ==
    /\ pc = "loop"
    /\ transaction_counter = 2
    /\ \E p, q \in Products :
         /\ p # q
         /\ sold[p] = 2
         /\ sold[q] = 1
         /\ stock[p] = stock0[p] - 2

\* C27: every iteration in which sessions remain synthesises exactly one
\* session, so session_counter = min(iteration, NUM_SESSIONS) at the end of
\* every iteration; the cap is at least NUM_SESSIONS, so at loop exit
\* session_counter = NUM_SESSIONS and only the transactions can fall short.
C27_SessionPerIteration ==
    /\ MAX_ITERATIONS >= NUM_SESSIONS
    /\ [](pc = "loop" => session_counter = Min(iteration, NUM_SESSIONS))
    /\ [](pc \in {"flush", "close", "resave", "done"} =>
            session_counter = NUM_SESSIONS)
    /\ [][(pc = "loop" /\ pc' # "loop" /\ session_counter < NUM_SESSIONS) =>
            pc' = "session"]_vars
    /\ [][(pc = "session" /\ pc' # "session") =>
            session_counter' = session_counter + 1]_vars
    /\ [][pc # "session" => session_counter' = session_counter]_vars

\* The loop was left on the cap with every session made and no transaction.
C27_Witness ==
    /\ pc = "flush"
    /\ iteration = MAX_ITERATIONS
    /\ session_counter = NUM_SESSIONS
    /\ transaction_counter = 0

RECURSIVE Flatten(_, _)
\* The records of sessions_0.json .. sessions_<n-1>.json, in that order.
Flatten(files, n) ==
    IF n = 0 THEN <<>> ELSE Flatten(files, n - 1) \o files[n - 1]

C30_BoundedBuffer ==
    /\ [](chunk_size > 0 => Len(chunk_sessions) <= chunk_size)
    /\ [](chunk_size > 0 /\ pc # "session" =>
            Len(chunk_sessions) < chunk_size)
    /\ [][(pc = "session" /\ Len(chunk_sessions) + 1 >= chunk_size
              /\ pc' # "session") =>
            /\ chunk_sessions' = <<>>
            /\ chunk_index' = chunk_index + 1
            /\ session_files'[chunk_index] =
                   Append(chunk_sessions, session_id')]_vars

\* The buffer was filled and flushed and is one short of full again.
C30_Witness ==
    /\ chunk_index >= 1
    /\ chunk_size > 1
    /\ Len(chunk_sessions) = chunk_size - 1
    /\ pc = "loop"

\* The session ids appended to the session output so far.
AppendedSessions ==
    {chunk_sessions[k] : k \in 1..Len(chunk_sessions)}
    \cup UNION {{session_files[n][k] : k \in 1..Len(session_files[n])} :
                    n \in DOMAIN session_files}

\* C29: a written transaction with a session id refers to a session already
\* appended to the session output, converted, whose recorded cart lines are
\* the transaction's items (product ids, quantities, unit prices, order), and
\* has status completed; no session id has two transactions; and a
\* transaction has no session id iff it came from the independent basket.
C29_Linkage ==
    /\ [][tx_file' # tx_file /\ ~tx_closed' =>
            \/ /\ pc = "commit"
               /\ tx_doc'.session_id = session_id
               /\ session_id # None
               /\ session_id \in AppendedSessions
               /\ session_doc.session_id = session_id
               /\ session_doc.conversion_status = "converted"
               /\ tx_doc'.status = "completed"
               /\ Len(tx_doc'.items) = Len(session_doc.cart_contents)
               /\ \A k \in 1..Len(tx_doc'.items) :
                    /\ tx_doc'.items[k].product_id =
                           session_doc.cart_contents[k].product_id
                    /\ tx_doc'.items[k].quantity =
                           session_doc.cart_contents[k].quantity
                    /\ tx_doc'.items[k].unit_price =
                           session_doc.cart_contents[k].price
               /\ tx_file'[Len(tx_file')] = Token("elem", tx_doc')
            \/ /\ pc = "bcommit"
               /\ tx_doc'.session_id = None
               /\ tx_file'[Len(tx_file')] = Token("elem", tx_doc')]_vars
    /\ [](\A a, b \in Elements(tx_file) :
            (a # b /\ tx_file[a].session_id # None) =>
                tx_file[a].session_id # tx_file[b].session_id)
    /\ [](\A a \in Elements(tx_file) :
            tx_file[a].session_id # None =>
                tx_file[a].session_id \in AppendedSessions)

\* A session-derived transaction of one item was written for a session whose
\* cart also had a line of quantity 0.
C29_Witness ==
    /\ pc = "basket"
    /\ tx_doc.transaction_id # 0
    /\ tx_doc.session_id = session_id
    /\ session_id # None
    /\ Len(tx_doc.items) = 1
    /\ Len(cart_contents) = 2
    /\ Len(session_doc.cart_contents) = 1

\* C21: a run configured with a chunk size <= 0 stops at startup: it
\* generates no session and no transaction and writes no sessions_<N>.json.
C21_InvalidConfigRejected ==
    chunk_size <= 0 =>
        /\ session_counter = 0
        /\ transaction_counter = 0
        /\ session_files = <<>>

\* C22: with several workers calling write_tx concurrently the writes are
\* serialized: no two elements without a separator between them, no separator
\* before the first element, and the separator and element of one write are
\* never split by a piece of another.
C22_SerializedWrites ==
    /\ \A k \in 2..Len(tx_file) :
         tx_file[k].tok = IF k % 2 = 0 THEN "elem" ELSE ","
    /\ (\A w \in Workers : wpc[w] \in {"idle", "flag"}) =>
           tx_file[Len(tx_file)].tok \in {"[", "elem"}

\* The page type of the view at position k, positions counted from 0.
TypeAt(k) == page_views[k + 1].page_type

\* C26: in every session's page views a checkout comes right after a cart, a
\* confirmation right after a checkout, a cart right after a product_detail
\* or a checkout; so no checkout before position 3, no confirmation before
\* position 4, and a session that reached checkout or confirmation has a
\* product_detail view with a cart view after it.
C26_PageOrdering ==
    /\ \A k \in 0..(Len(page_views) - 1) :
         /\ TypeAt(k) = "checkout" => (k >= 3 /\ TypeAt(k - 1) = "cart")
         /\ TypeAt(k) = "confirmation" =>
                (k >= 4 /\ TypeAt(k - 1) = "checkout")
         /\ TypeAt(k) = "cart" =>
                (k >= 2 /\ TypeAt(k - 1) \in {"product_detail", "checkout"})
    /\ ReachedCheckout(page_views) =>
           \E a, b \in 0..(Len(page_views) - 1) :
               a < b /\ TypeAt(a) = "product_detail" /\ TypeAt(b) = "cart"

\* The shortest way to a checkout and to a confirmation.
C26_Witness ==
    /\ Len(page_views) = 5
    /\ TypeAt(1) = "product_detail"
    /\ TypeAt(2) = "cart"
    /\ TypeAt(3) = "checkout"
    /\ TypeAt(4) = "confirmation"

\* C23: the price history of a generated product is non-empty and in
\* non-decreasing date order, creation_date is the date of its first entry,
\* which is the initially sampled date, and base_price is the price of the
\* chronologically last entry, whatever the number (0, 1, 2) and the dates of
\* the price changes.
C23_PriceHistory ==
    prod_pc = "appended" =>
        LET history == product_doc.price_history
        IN  /\ history # <<>>
            /\ \A a, b \in 1..Len(history) :
                 a <= b => history[a].date <= history[b].date
            /\ product_doc.creation_date = history[1].date
            /\ product_doc.creation_date = sampled_date
            /\ product_doc.base_price = history[Len(history)].price
            /\ \A a \in 1..Len(history) :
                 history[a].date <= history[Len(history)].date

\* A product with two price changes, the first on the day of the initial
\* date, and a current price other than the one drawn.
C23_Witness ==
    /\ prod_pc = "appended"
    /\ Len(product_doc.price_history) = 3
    /\ product_doc.price_history[2].date = product_doc.price_history[1].date
    /\ product_doc.price_history[3].date > product_doc.price_history[2].date
    /\ product_doc.base_price # drawn_price

====
